---- MODULE Spec2Model ----
(***************************************************************************)
(* Model of update_product_category_enum.py: the HubSpot product-category  *)
(* enumeration updater.  One run of main() is a process that performs up   *)
(* to four kinds of remote calls (schemas get_all, objects do_search,      *)
(* properties get_by_name, properties update); the remote enumeration      *)
(* property's option list is the only durable state.                       *)
(***************************************************************************)
EXTENDS Integers, Sequences, FiniteSets, TLC

(* ------------------------------ bounds --------------------------------- *)
\* longest option list the remote property holds before the first run
MaxInitOpts == 3
\* longest chain of search pages the remote serves to one search
MaxPages == 2
\* most records on one search page (the code asks for limit=100)
MaxPageLen == 2
\* most further invocations of the script after the first
MaxReruns == 2

(* --------------------------- value domains ----------------------------- *)
Runs == {"run1", "run2"}
Names == {"Shoes", "Hats"}
IdSeq == <<"1", "2", "3">>
Ids == {IdSeq[i] : i \in 1..Len(IdSeq)}
None == "None"
\* after=None of the first request; the remote's cursors are 1, 2, ...
NoCursor == 0
InitLabels == {"Legacy"}

PRODUCT_OBJECT_TYPE == "products"
PRODUCT_CATEGORY_OBJECT_NAME == "product_categories"
SchemaNames == {PRODUCT_CATEGORY_OBJECT_NAME, "tickets"}
TypeIds == {"2-100", "2-200"}

VARIABLES
  options,            \* remote: the options of products.product_category
  input,              \* per run: token present, --category_id / event id
  argv0,              \* per run: sys.argv[0]; Unread until main looks at it
  pc,                 \* per run: the remote call the run is about to make
  object_type,        \* per run: product_category_object_type (None if unresolved)
  categories,         \* per run: the name -> id dict, as a sequence of <<name, id>>
  after,              \* per run: search_request.after
  definition,         \* per run: property_definition.options as read by get_by_name
  updated_options,    \* per run: the list assigned to property_definition.options
  result,             \* per run: what update_enumeration_property returned
  returned,           \* per run: what main returned to its caller
  calls,              \* per run: log of remote calls issued, in order
  requested,          \* per run: log of the cursors sent with do_search
  latest,             \* per run: per name, the id of its latest served occurrence
  collided,           \* per run: a name was served again with a different id
  search_failed,      \* per run: do_search raised
  stale,              \* per run: the remote list differed from the snapshot at the write
  reruns              \* invocations of the script after the first, so far

vars == <<options, input, argv0, pc, object_type, categories, after, definition,
          updated_options, result, returned, calls, requested, latest,
          collided, search_failed, stale, reruns>>

(* ------------------------------ helpers -------------------------------- *)
Range(s) == {s[i] : i \in 1..Len(s)}

SeqsUpTo(S, n) == UNION {[1..k -> S] : k \in 0..n}

Values(opts) == {opts[i].value : i \in 1..Len(opts)}

\* variant: categories.setdefault(name, id), the first id of a name stays
DictSetDefault(d, k, v) ==
  IF \E i \in 1..Len(d) : d[i][1] = k THEN d ELSE Append(d, <<k, v>>)

\* categories[category_name] = str(category_id_result): an existing key keeps
\* its insertion position and takes the new value, a new key goes last
DictSet(d, k, v) ==
  IF \E i \in 1..Len(d) : d[i][1] = k
  THEN [i \in 1..Len(d) |-> IF d[i][1] = k THEN <<k, v>> ELSE d[i]]
  ELSE Append(d, <<k, v>>)

RECURSIVE Accumulate(_, _)
\* for result in api_response.results: categories[name] = id
Accumulate(d, results) ==
  IF results = <<>> THEN d
  ELSE Accumulate(DictSet(d, Head(results)[1], Head(results)[2]), Tail(results))

DictValues(d) == {d[i][2] : i \in 1..Len(d)}

\* for obj_type in api_response.results: if obj_type.name == object_name: return id
RECURSIVE FindType(_, _)
FindType(schemas, object_name) ==
  IF schemas = <<>> THEN None
  ELSE IF Head(schemas).name = object_name THEN Head(schemas).object_type_id
  ELSE FindType(Tail(schemas), object_name)

(* ------------------- update_enumeration_property ----------------------- *)
Option(label, value, displayOrder, hidden) ==
  [label |-> label, value |-> value, displayOrder |-> displayOrder, hidden |-> hidden]

\* variant: enumerate(..., 1), the display order counted from 1
FullReplaceFromOne(enum_options) ==
  [i \in 1..Len(enum_options) |->
     Option(enum_options[i][1], enum_options[i][2], i, FALSE)]

\* category_id is None: rebuild the whole list from the mapping
FullReplace(enum_options) ==
  [i \in 1..Len(enum_options) |->
     Option(enum_options[i][1], enum_options[i][2], i - 1, FALSE)]

\* variant: the filter compares the label, not the value
DeleteByLabel(existing_options, category_id) ==
  SelectSeq(existing_options, LAMBDA option : option.label # category_id)

\* not enum_options: drop the options whose value is category_id
DeleteOption(existing_options, category_id) ==
  SelectSeq(existing_options, LAMBDA option : option.value # category_id)

\* existing_values = {option.value: option ...}: the last option of a value wins
ExistingOption(existing_options, value) ==
  LET idx == {i \in 1..Len(existing_options) : existing_options[i].value = value}
      last == CHOOSE i \in idx : \A j \in idx : j <= i
  IN existing_options[last]

\* variant: an updated option is written with hidden = False, like a new one
FirstUpsertedUnhidden(existing_options, enum_options) ==
  LET label == enum_options[1][1]
      value == enum_options[1][2]
  IN IF value \in Values(existing_options)
     THEN Option(label, value,
                 ExistingOption(existing_options, value).displayOrder, FALSE)
     ELSE Option(label, value, Len(existing_options), FALSE)

\* the option built from the first (label, value) of the mapping, before the break
FirstUpserted(existing_options, enum_options) ==
  LET label == enum_options[1][1]
      value == enum_options[1][2]
      updated_so_far == <<>>
  IN IF value \in Values(existing_options)
     THEN Option(label, value,
                 ExistingOption(existing_options, value).displayOrder,
                 ExistingOption(existing_options, value).hidden)
     ELSE Option(label, value,
                 Len(existing_options) + Len(updated_so_far), FALSE)

\* variant: the options are carried over in reverse
CarriedOverReversed(existing_options, enum_options) ==
  LET kept == SelectSeq(existing_options,
                        LAMBDA option : option.value \notin DictValues(enum_options))
  IN [i \in 1..Len(kept) |-> kept[Len(kept) + 1 - i]]

\* "Add all other existing options": those whose value is no value of the mapping
CarriedOver(existing_options, enum_options) ==
  SelectSeq(existing_options,
            LAMBDA option : option.value \notin DictValues(enum_options))

SingleUpsert(existing_options, enum_options) ==
  <<FirstUpserted(existing_options, enum_options)>>
    \o CarriedOver(existing_options, enum_options)

\* the list assigned to property_definition.options
Reconcile(existing_options, enum_options, category_id) ==
  IF category_id = None THEN FullReplace(enum_options)
  ELSE IF enum_options = <<>> THEN DeleteOption(existing_options, category_id)
  ELSE SingleUpsert(existing_options, enum_options)

\* the action reported with a successful update
ActionOf(existing_options, enum_options, category_id) ==
  IF category_id = None THEN "all"
  ELSE IF enum_options = <<>> THEN "delete"
  ELSE IF enum_options[1][2] \in Values(existing_options) THEN "update"
  ELSE "create"

SuccessResult(action, category_id) ==
  [result |-> "success", category_id |-> category_id, action |-> action]

ErrorResult(category_id) ==
  [result |-> "error", category_id |-> category_id, action |-> "error"]

\* the payload main builds in its own except clause
MainError == [result |-> "error"]

\* main fell off its end, or printed the payload instead of returning it
NoReturn == [result |-> None]

NoResult == [result |-> None]

Scripts == {"hubspotHandler.py", "update_product_category_enum.py"}

Unread == "unread"

\* "hubspotHandler.py" in sys.argv[0]
Hosted(script) == script = "hubspotHandler.py"

\* if result: return it when hosted, print it otherwise
Deliver(script, res) == IF Hosted(script) THEN res ELSE NoReturn

CliScript == "update_product_category_enum.py"

\* main ends: the payload goes to the caller or to standard output
Finish(r, res) ==
  \E script \in (IF argv0[r] = Unread THEN Scripts ELSE {argv0[r]}) :
     /\ argv0' = [argv0 EXCEPT ![r] = script]
     /\ returned' = [returned EXCEPT ![r] = Deliver(script, res)]

(* ------------------------------- state --------------------------------- *)
OptionRecs ==
  [label : InitLabels, value : Ids, displayOrder : 0..(MaxInitOpts - 1), hidden : BOOLEAN]

IdRank(id) == CHOOSE i \in 1..Len(IdSeq) : IdSeq[i] = id

\* values are unique and the display orders are 0..n-1 in some order; ids are
\* opaque, so the lists are taken up to renaming: values in ascending order
WellFormed(opts) ==
  /\ \A i, j \in 1..Len(opts) :
        i < j => IdRank(opts[i].value) < IdRank(opts[j].value)
                 /\ opts[i].displayOrder # opts[j].displayOrder
  /\ \A i \in 1..Len(opts) : opts[i].displayOrder < Len(opts)

InitOptionLists == {opts \in SeqsUpTo(OptionRecs, MaxInitOpts) : WellFormed(opts)}

Inputs == [token : BOOLEAN, category_id : Ids \cup {None}]

SchemaLists ==
  SeqsUpTo([name : SchemaNames, object_type_id : TypeIds], 2)

Pages == SeqsUpTo(Names \X Ids, MaxPageLen)

NoLatest == [n \in Names |-> None]

Locals(p) ==
  /\ pc = [r \in Runs |-> p[r]]
  /\ object_type = [r \in Runs |-> None]
  /\ categories = [r \in Runs |-> <<>>]
  /\ after = [r \in Runs |-> NoCursor]
  /\ definition = [r \in Runs |-> <<>>]
  /\ updated_options = [r \in Runs |-> <<>>]
  /\ result = [r \in Runs |-> NoResult]
  /\ returned = [r \in Runs |-> NoReturn]
  /\ calls = [r \in Runs |-> <<>>]
  /\ requested = [r \in Runs |-> <<>>]
  /\ latest = [r \in Runs |-> NoLatest]
  /\ collided = [r \in Runs |-> FALSE]
  /\ search_failed = [r \in Runs |-> FALSE]
  /\ stale = [r \in Runs |-> FALSE]
  /\ argv0 = [r \in Runs |-> Unread]
  /\ reruns = 0

IdleInput == [token |-> FALSE, category_id |-> None]

\* one run of main against an arbitrary well-formed remote option list
Init ==
  /\ options \in InitOptionLists
  /\ \E i \in Inputs : input = [r \in Runs |-> IF r = "run1" THEN i ELSE IdleInput]
  /\ Locals([r \in Runs |-> IF r = "run1" THEN "main" ELSE "idle"])

(* ------------------------------- main ---------------------------------- *)
\* lines 185-188: the token check; a missing token raises into main's except
Main(r) ==
  /\ pc[r] = "main"
  /\ IF input[r].token
     THEN /\ pc' = [pc EXCEPT ![r] = "get_all"]
          /\ UNCHANGED <<returned, argv0>>
     ELSE /\ pc' = [pc EXCEPT ![r] = "done"]
          /\ Finish(r, MainError)
  /\ UNCHANGED <<options, input, object_type, categories, after, definition,
                 updated_options, result, calls, requested, latest, collided,
                 search_failed, stale, reruns>>

\* variant: main goes on to the search whatever get_object_type returned
AfterResolveUnchecked(r, type_id) ==
  /\ object_type' = [object_type EXCEPT ![r] = type_id]
  /\ calls' = [calls EXCEPT ![r] = Append(@, "get_all")]
  /\ pc' = [pc EXCEPT ![r] = "do_search"]
  /\ UNCHANGED <<options, input, argv0, categories, after, definition,
                 updated_options, result, returned, requested, latest, collided,
                 search_failed, stale, reruns>>

\* what main does once get_object_type has returned type_id: without a type
\* it prints a message and falls off its end
AfterResolve(r, type_id) ==
  /\ object_type' = [object_type EXCEPT ![r] = type_id]
  /\ calls' = [calls EXCEPT ![r] = Append(@, "get_all")]
  /\ IF PRODUCT_OBJECT_TYPE # "" /\ type_id # None
     THEN /\ pc' = [pc EXCEPT ![r] = "do_search"]
          /\ UNCHANGED <<returned, argv0>>
     ELSE /\ pc' = [pc EXCEPT ![r] = "done"]
          /\ Finish(r, NoReturn)
  /\ UNCHANGED <<options, input, categories, after, definition, updated_options,
                 result, requested, latest, collided, search_failed, stale, reruns>>

\* get_object_type: the schema list is scanned for the name
GetAllOk(r) ==
  /\ pc[r] = "get_all"
  /\ \E schemas \in SchemaLists :
        AfterResolve(r, FindType(schemas, PRODUCT_CATEGORY_OBJECT_NAME))

\* get_object_type: the schemas call raised, None is returned
GetAllFail(r) ==
  /\ pc[r] = "get_all"
  /\ AfterResolve(r, None)

(* ----------------------- get_product_categories ------------------------ *)
\* the page the cursor names: the first page when no cursor is set
PageOf(cursor) == IF cursor = NoCursor THEN 0 ELSE cursor

\* the remote's record of what it served: per name the id of its latest record
Served(seen, results) ==
  [n \in Names |->
     IF \E i \in 1..Len(results) : results[i][1] = n
     THEN LET last == CHOOSE i \in 1..Len(results) :
                         /\ results[i][1] = n
                         /\ \A j \in 1..Len(results) : results[j][1] = n => j <= i
          IN results[last][2]
     ELSE seen[n]]

\* the remote serves a name it has served before, now with another id
Collides(seen, results) ==
  \E i \in 1..Len(results) :
     \/ seen[results[i][1]] \notin {None, results[i][2]}
     \/ \E j \in 1..(i - 1) :
           results[j][1] = results[i][1] /\ results[j][2] # results[i][2]

\* the filter of the request: EQ on the id property when an id is given,
\* HAS_PROPERTY on the name property (every record here has a name) otherwise
FilterMatches(category_id, record) ==
  category_id # None => record[2] = category_id

\* search_request.after = api_response.paging.next.after
Advance(cursor, next_after) == next_after

\* one pass of the while loop: a search call that succeeds.  paging is "none"
\* (no paging object), "no_after" (an empty next.after) or "next" (a cursor)
DoSearchOk(r) ==
  /\ pc[r] = "do_search"
  /\ \E results \in Pages, paging \in {"none", "no_after", "next"} :
        /\ \A i \in 1..Len(results) : FilterMatches(input[r].category_id, results[i])
        /\ paging = "next" => Len(requested[r]) + 1 < MaxPages
        /\ categories' = [categories EXCEPT ![r] = Accumulate(@, results)]
        /\ latest' = [latest EXCEPT ![r] = Served(@, results)]
        /\ collided' = [collided EXCEPT ![r] = @ \/ Collides(latest[r], results)]
        /\ IF paging = "next"
           THEN /\ after' = [after EXCEPT ![r] = Advance(@, PageOf(after[r]) + 1)]
                /\ pc' = pc
           ELSE /\ after' = after
                /\ pc' = [pc EXCEPT ![r] = "get_by_name"]
  /\ calls' = [calls EXCEPT ![r] = Append(@, "do_search")]
  /\ requested' = [requested EXCEPT ![r] = Append(@, after[r])]
  /\ UNCHANGED <<options, input, argv0, object_type, definition, updated_options,
                 result, returned, search_failed, stale, reruns>>

\* variant: the except clauses return what was accumulated so far
OnSearchErrorKeep(accumulated) == accumulated

\* what get_product_categories returns from its except clauses
OnSearchError(accumulated) == <<>>

\* a search call that raises, on the first page or a later one
DoSearchFail(r) ==
  /\ pc[r] = "do_search"
  /\ categories' = [categories EXCEPT ![r] = OnSearchError(@)]
  /\ search_failed' = [search_failed EXCEPT ![r] = TRUE]
  /\ calls' = [calls EXCEPT ![r] = Append(@, "do_search")]
  /\ requested' = [requested EXCEPT ![r] = Append(@, after[r])]
  /\ pc' = [pc EXCEPT ![r] = "get_by_name"]
  /\ UNCHANGED <<options, input, argv0, object_type, after, definition, updated_options,
                 result, returned, latest, collided, stale, reruns>>

(* ---------------- update_enumeration_property, the calls --------------- *)
\* get_by_name returned the property definition
GetByNameOk(r) ==
  /\ pc[r] = "get_by_name"
  /\ definition' = [definition EXCEPT ![r] = options]
  /\ calls' = [calls EXCEPT ![r] = Append(@, "get_by_name")]
  /\ pc' = [pc EXCEPT ![r] = "update"]
  /\ UNCHANGED <<options, input, argv0, object_type, categories, after, updated_options,
                 result, returned, requested, latest, collided, search_failed, stale, reruns>>

\* get_by_name raised: the error result goes back to main
GetByNameFail(r) ==
  /\ pc[r] = "get_by_name"
  /\ calls' = [calls EXCEPT ![r] = Append(@, "get_by_name")]
  /\ result' = [result EXCEPT ![r] = ErrorResult(input[r].category_id)]
  /\ Finish(r, ErrorResult(input[r].category_id))
  /\ pc' = [pc EXCEPT ![r] = "done"]
  /\ UNCHANGED <<options, input, object_type, categories, after, definition,
                 updated_options, requested, latest, collided, search_failed, stale, reruns>>

\* variant: the update is conditional on the list being the one that was read
UpdateOkIfUnchanged(r) ==
  LET new == Reconcile(definition[r], categories[r], input[r].category_id)
      res == SuccessResult(
               ActionOf(definition[r], categories[r], input[r].category_id),
               input[r].category_id)
  IN /\ pc[r] = "update"
     /\ options = definition[r]
     /\ updated_options' = [updated_options EXCEPT ![r] = new]
     /\ options' = new
     /\ stale' = [stale EXCEPT ![r] = FALSE]
     /\ calls' = [calls EXCEPT ![r] = Append(@, "update")]
     /\ result' = [result EXCEPT ![r] = res]
     /\ Finish(r, res)
     /\ pc' = [pc EXCEPT ![r] = "done"]
     /\ UNCHANGED <<input, object_type, categories, after, definition, requested,
                    latest, collided, search_failed, reruns>>

\* the property-update call went through: the whole option list is replaced
UpdateOk(r) ==
  LET new == Reconcile(definition[r], categories[r], input[r].category_id)
      res == SuccessResult(
               ActionOf(definition[r], categories[r], input[r].category_id),
               input[r].category_id)
  IN /\ pc[r] = "update"
     /\ updated_options' = [updated_options EXCEPT ![r] = new]
     /\ options' = new
     /\ stale' = [stale EXCEPT ![r] = (options # definition[r])]
     /\ calls' = [calls EXCEPT ![r] = Append(@, "update")]
     /\ result' = [result EXCEPT ![r] = res]
     /\ Finish(r, res)
     /\ pc' = [pc EXCEPT ![r] = "done"]
     /\ UNCHANGED <<input, object_type, categories, after, definition, requested,
                    latest, collided, search_failed, reruns>>

\* the property-update call raised: nothing is written
UpdateFail(r) ==
  LET new == Reconcile(definition[r], categories[r], input[r].category_id)
      res == ErrorResult(input[r].category_id)
  IN /\ pc[r] = "update"
     /\ updated_options' = [updated_options EXCEPT ![r] = new]
     /\ calls' = [calls EXCEPT ![r] = Append(@, "update")]
     /\ result' = [result EXCEPT ![r] = res]
     /\ Finish(r, res)
     /\ pc' = [pc EXCEPT ![r] = "done"]
     /\ UNCHANGED <<options, input, object_type, categories, after, definition,
                    requested, latest, collided, search_failed, stale, reruns>>

Step(r) ==
  \/ Main(r)
  \/ GetAllOk(r)
  \/ GetAllFail(r)
  \/ DoSearchOk(r)
  \/ DoSearchFail(r)
  \/ GetByNameOk(r)
  \/ GetByNameFail(r)
  \/ UpdateOk(r)
  \/ UpdateFail(r)

Next == \E r \in Runs : Step(r)

Spec == Init /\ [][Next]_vars

(* ------------- update_enumeration_property, call by call --------------- *)
\* the dicts get_product_categories can return: names are unique keys
Mappings ==
  {d \in SeqsUpTo(Names \X Ids, Cardinality(Names)) :
     \A i, j \in 1..Len(d) : i # j => d[i][1] # d[j][1]}

\* the dicts a search with category_id = c can return
CallMappings(c) ==
  {d \in Mappings : \A i \in 1..Len(d) : FilterMatches(c, d[i])}

LatestOf(d) ==
  [n \in Names |->
     IF \E i \in 1..Len(d) : d[i][1] = n
     THEN d[CHOOSE i \in 1..Len(d) : d[i][1] = n][2]
     ELSE None]

CliInput(c) == [token |-> TRUE, category_id |-> c]

NoCall == [category_id |-> None, enum_options |-> <<>>, on |-> FALSE]

Call(c, d) == [category_id |-> c, enum_options |-> d, on |-> TRUE]

\* every run r with arg[r].on has resolved the type, searched one page and is
\* calling update_enumeration_property(arg[r].enum_options, arg[r].category_id)
AtCall(arg) ==
  /\ input = [r \in Runs |->
                IF arg[r].on THEN CliInput(arg[r].category_id) ELSE IdleInput]
  /\ pc = [r \in Runs |-> IF arg[r].on THEN "get_by_name" ELSE "idle"]
  /\ object_type = [r \in Runs |-> IF arg[r].on THEN "2-100" ELSE None]
  /\ categories = [r \in Runs |-> arg[r].enum_options]
  /\ after = [r \in Runs |-> NoCursor]
  /\ definition = [r \in Runs |-> <<>>]
  /\ updated_options = [r \in Runs |-> <<>>]
  /\ result = [r \in Runs |-> NoResult]
  /\ returned = [r \in Runs |-> NoReturn]
  /\ calls = [r \in Runs |-> IF arg[r].on THEN <<"get_all", "do_search">> ELSE <<>>]
  /\ requested = [r \in Runs |-> IF arg[r].on THEN <<NoCursor>> ELSE <<>>]
  /\ latest = [r \in Runs |-> LatestOf(arg[r].enum_options)]
  /\ collided = [r \in Runs |-> FALSE]
  /\ search_failed = [r \in Runs |-> FALSE]
  /\ stale = [r \in Runs |-> FALSE]
  /\ argv0 = [r \in Runs |-> IF arg[r].on THEN CliScript ELSE Unread]
  /\ reruns = 0

UpdStep(r) ==
  \/ GetByNameOk(r)
  \/ GetByNameFail(r)
  \/ UpdateOk(r)
  \/ UpdateFail(r)

\* the next run's call of update_enumeration_property: new arguments
Reinvoke(r) ==
  /\ pc[r] = "done"
  /\ reruns < MaxReruns
  /\ reruns' = reruns + 1
  /\ \E c \in Ids \cup {None} : \E d \in CallMappings(c) :
        /\ input' = [input EXCEPT ![r] = CliInput(c)]
        /\ categories' = [categories EXCEPT ![r] = d]
        /\ latest' = [latest EXCEPT ![r] = LatestOf(d)]
  /\ collided' = [collided EXCEPT ![r] = FALSE]
  /\ pc' = [pc EXCEPT ![r] = "get_by_name"]
  /\ definition' = [definition EXCEPT ![r] = <<>>]
  /\ updated_options' = [updated_options EXCEPT ![r] = <<>>]
  /\ result' = [result EXCEPT ![r] = NoResult]
  /\ returned' = [returned EXCEPT ![r] = NoReturn]
  /\ calls' = [calls EXCEPT ![r] = <<"get_all", "do_search">>]
  /\ stale' = [stale EXCEPT ![r] = FALSE]
  /\ UNCHANGED <<options, argv0, object_type, after, requested, search_failed>>

\* command-line runs one after the other against the same property
InitSeq ==
  /\ options \in InitOptionLists
  /\ \E c \in Ids \cup {None} : \E d \in CallMappings(c) :
        AtCall([r \in Runs |-> IF r = "run1" THEN Call(c, d) ELSE NoCall])

NextSeq == \E r \in Runs : UpdStep(r) \/ Reinvoke(r)

SpecSeq == InitSeq /\ [][NextSeq]_vars

(* --------------------------- concurrent runs --------------------------- *)
\* a full-sync run and a targeted run call update_enumeration_property on the
\* same property at the same time
InitConc ==
  /\ options \in InitOptionLists
  /\ \E c \in Ids, d1 \in Mappings : \E d2 \in CallMappings(c) :
        AtCall([r \in Runs |-> IF r = "run1" THEN Call(None, d1) ELSE Call(c, d2)])

NextConc == \E r \in Runs : UpdStep(r)

SpecConc == InitConc /\ [][NextConc]_vars

(* ------------------------------ properties ----------------------------- *)
Done(r) == pc[r] = "done"

\* run r issued the property update and it went through
Wrote(r) == Done(r) /\ result[r].result = "success"

RemoveAt(s, k) == [i \in 1..(Len(s) - 1) |-> IF i < k THEN s[i] ELSE s[i + 1]]

\* C1: a full replace (no target id, non-empty mapping) writes exactly one
\* option per mapping entry, in the mapping's order: the i-th option (from 0)
\* has the i-th entry's name as label and id as value, displayOrder i and
\* hidden false; nothing of the previous list survives; the action is 'all'.
C1_FullReplace ==
  \A r \in Runs :
    (Wrote(r) /\ input[r].category_id = None /\ categories[r] # <<>>) =>
      LET m == categories[r]
          w == updated_options[r]
      IN /\ Len(w) = Len(m)
         /\ \A i \in 1..Len(m) :
               /\ w[i].label = m[i][1]
               /\ w[i].value = m[i][2]
               /\ w[i].displayOrder = i - 1
               /\ w[i].hidden = FALSE
         /\ options = w
         /\ result[r].action = "all"

C1_Witness ==
  /\ Wrote("run1")
  /\ input["run1"].category_id = None
  /\ categories["run1"] = << <<"Shoes", "1">>, <<"Hats", "2">> >>
  /\ Len(definition["run1"]) = 3
  /\ options = << Option("Shoes", "1", 0, FALSE), Option("Hats", "2", 1, FALSE) >>
  /\ result["run1"].action = "all"

\* a targeted run whose one-entry mapping names a value the list already holds
UpdateCase(r) ==
  /\ Wrote(r)
  /\ input[r].category_id # None
  /\ Len(categories[r]) = 1
  /\ categories[r][1][2] \in Values(definition[r])

\* C2 as stated: the matching option keeps its position in the sequence, its
\* displayOrder and hidden, only its label changes, every other option is
\* unchanged and the count is the same; the action is 'update'.
C2_LabelReplacedInPlace ==
  \A r \in Runs :
    UpdateCase(r) =>
      LET e == definition[r]
          w == updated_options[r]
          l == categories[r][1][1]
          v == categories[r][1][2]
      IN /\ Len(w) = Len(e)
         /\ \A i \in 1..Len(e) :
               w[i] = IF e[i].value = v THEN [e[i] EXCEPT !.label = l] ELSE e[i]
         /\ result[r].action = "update"

\* C2, amended: the count is the same, the matching option keeps its
\* displayOrder and hidden and takes the new label, but it is written first in
\* the sequence; the other options follow unchanged, in their previous order.
C2_LabelReplacedMovedFirst ==
  \A r \in Runs :
    UpdateCase(r) =>
      LET e == definition[r]
          w == updated_options[r]
          l == categories[r][1][1]
          v == categories[r][1][2]
      IN /\ Len(w) = Len(e)
         /\ \E k \in 1..Len(e) :
               /\ e[k].value = v
               /\ w[1] = [e[k] EXCEPT !.label = l]
               /\ Tail(w) = RemoveAt(e, k)
         /\ options = w
         /\ result[r].action = "update"

C2_Witness ==
  /\ UpdateCase("run1")
  /\ Len(definition["run1"]) = 3
  /\ definition["run1"][3].value = categories["run1"][1][2]
  /\ definition["run1"][3].hidden
  /\ definition["run1"][3].displayOrder = 0
  /\ definition["run1"][3].label # categories["run1"][1][1]
  /\ options[1].value = categories["run1"][1][2]

\* a targeted run whose first mapping entry names a value the list lacks
CreateCase(r) ==
  /\ Wrote(r)
  /\ input[r].category_id # None
  /\ categories[r] # <<>>
  /\ categories[r][1][2] \notin Values(definition[r])

\* C3 as stated: exactly one option (first entry's label and value,
\* displayOrder = previous count, hidden false) is appended after the
\* pre-existing options, which are all carried through unchanged, also when
\* the mapping has more entries; the action is 'create'.
C3_AppendedAfterExisting ==
  \A r \in Runs :
    CreateCase(r) =>
      LET e == definition[r]
          m == categories[r]
      IN /\ updated_options[r] = Append(e, Option(m[1][1], m[1][2], Len(e), FALSE))
         /\ result[r].action = "create"

\* C3, amended: the new option (first entry's label and value, displayOrder =
\* previous count, hidden false) is written first; after it come, unchanged
\* and in their previous order, the pre-existing options whose value is no
\* value of the mapping: all of them when the mapping has one entry or all its
\* entries carry the same value; the action is 'create'.
C3_NewOptionFirst ==
  \A r \in Runs :
    CreateCase(r) =>
      LET e == definition[r]
          m == categories[r]
          w == updated_options[r]
          kept == {i \in 1..Len(e) : \A j \in 1..Len(m) : e[i].value # m[j][2]}
      IN /\ w[1] = Option(m[1][1], m[1][2], Len(e), FALSE)
         /\ Len(w) = 1 + Cardinality(kept)
         /\ \A i \in 1..Len(e) :
               i \in kept => Tail(w)[Cardinality({j \in kept : j <= i})] = e[i]
         /\ (\A j \in 1..Len(m) : m[j][2] = m[1][2]) => Tail(w) = e
         /\ options = w
         /\ result[r].action = "create"

C3_Witness ==
  /\ CreateCase("run1")
  /\ Len(categories["run1"]) = 2
  /\ categories["run1"][2][2] = categories["run1"][1][2]
  /\ Len(definition["run1"]) = 2
  /\ definition["run1"][1].hidden
  /\ Len(options) = 3
  /\ options[1].displayOrder = 2

\* C4: a delete (target id, empty mapping) writes the existing list without
\* the one option whose value is the target id, the others unchanged and in
\* order; writes the list unchanged when no option has that value; and
\* reports 'success' with action 'delete'.
C4_Delete ==
  \A r \in Runs :
    (Wrote(r) /\ input[r].category_id # None /\ categories[r] = <<>>) =>
      LET e == definition[r]
          w == updated_options[r]
          hit == {i \in 1..Len(e) : e[i].value = input[r].category_id}
      IN /\ Cardinality(hit) = 1 => \E k \in hit : w = RemoveAt(e, k)
         /\ hit = {} => w = e
         /\ options = w
         /\ result[r].result = "success"
         /\ result[r].action = "delete"

C4_Witness ==
  /\ Wrote("run1")
  /\ input["run1"].category_id = "2"
  /\ categories["run1"] = <<>>
  /\ ~search_failed["run1"]
  /\ Len(definition["run1"]) = 3
  /\ definition["run1"][2].value = "2"
  /\ options = << definition["run1"][1], definition["run1"][3] >>
  /\ result["run1"].action = "delete"

Pairs(d) == {d[i] : i \in 1..Len(d)}

Count(log, call) == Cardinality({i \in 1..Len(log) : log[i] = call})

\* get_product_categories has returned to main without a failed search call
Fetched(r) ==
  /\ pc[r] \in {"get_by_name", "update", "done"}
  /\ Count(calls[r], "do_search") > 0
  /\ ~search_failed[r]

\* C5: when every search call succeeds, the pages of the chain are requested
\* once each in cursor order (no cursor, then 1, 2, ...), the loop stops at the
\* page that brings no next cursor, and the dict returned holds exactly the
\* served (name, id) pairs, the latest id of a name served more than once.
C5_Pagination ==
  \A r \in Runs :
    /\ pc[r] = "do_search" =>
         /\ requested[r] = [i \in 1..Len(requested[r]) |-> i - 1]
         /\ after[r] = Len(requested[r])
    /\ Fetched(r) =>
         LET n == Len(requested[r])
         IN /\ n >= 1
            /\ n = Count(calls[r], "do_search")
            /\ requested[r] = [i \in 1..n |-> i - 1]
            /\ after[r] = requested[r][n]
            /\ Pairs(categories[r]) =
                 {<<nm, latest[r][nm]>> : nm \in {x \in Names : latest[r][x] # None}}
            /\ Len(categories[r]) = Cardinality(Pairs(categories[r]))

C5_Witness ==
  /\ pc["run1"] = "get_by_name"
  /\ ~search_failed["run1"]
  /\ requested["run1"] = <<0, 1>>
  /\ collided["run1"]
  /\ categories["run1"] = << <<"Shoes", "2">>, <<"Hats", "1">> >>

\* run r ended without a successful property update
Failed(r) == Done(r) /\ result[r].result # "success"

\* C6: in hosted mode every run that ends in a failure (no token, type not
\* resolved, error on the property fetch or update) returns a payload with
\* result = 'error'; none returns nothing.
C6_HostedFailureReturnsError ==
  \A r \in Runs :
    (Failed(r) /\ Hosted(argv0[r])) => returned[r].result = "error"

\* C7: a failed search call, on the first page or a later one, does not abort
\* the run: the mapping is empty whatever was accumulated, main goes on to the
\* property calls, a full-sync run writes the empty list and a targeted run
\* writes the list without the target id's option and reports success/delete.
C7_SearchErrorMeansNoCategories ==
  \A r \in Runs :
    search_failed[r] =>
      /\ categories[r] = <<>>
      /\ pc[r] \in {"get_by_name", "update", "done"}
      /\ Done(r) => Count(calls[r], "get_by_name") = 1
      /\ Wrote(r) =>
           IF input[r].category_id = None
           THEN /\ options = <<>>
                /\ result[r].action = "all"
           ELSE /\ Len(options) = Len(definition[r])
                      - Count([i \in 1..Len(definition[r]) |-> definition[r][i].value],
                              input[r].category_id)
                /\ input[r].category_id \notin Values(options)
                /\ \A i \in 1..Len(options) : options[i] \in Range(definition[r])
                /\ result[r].action = "delete"

C7_Witness ==
  /\ search_failed["run1"]
  /\ Len(requested["run1"]) = 2
  /\ latest["run1"]["Shoes"] # None
  /\ input["run1"].category_id = None
  /\ Wrote("run1")
  /\ Len(definition["run1"]) = 3
  /\ options = <<>>

C8_CallsInv ==
  \A r \in Runs :
    /\ ~input[r].token => calls[r] = <<>>
    /\ (Done(r) /\ input[r].token /\ object_type[r] = None) => calls[r] = <<"get_all">>
    /\ Count(calls[r], "update") > 0 => (input[r].token /\ object_type[r] # None)
    /\ Count(calls[r], "update") <= 1

C8_WriteStep ==
  options' # options =>
    \E r \in Runs :
      /\ input[r].token
      /\ object_type[r] # None
      /\ Count(calls[r], "update") = 0
      /\ Count(calls'[r], "update") = 1

\* C8: the property update is issued only by a run that has the token and has
\* resolved the object type; a run without token issues no call at all, a run
\* whose type resolution fails issues only the schemas call, so the remote
\* list changes in neither; no run issues the update more than once.
C8_UpdateOnlyWhenResolved == [](C8_CallsInv) /\ [][C8_WriteStep]_vars

C8_Witness ==
  /\ Wrote("run1")
  /\ input["run1"].token
  /\ object_type["run1"] # None
  /\ calls["run1"] = <<"get_all", "do_search", "do_search", "get_by_name", "update">>
  /\ options # definition["run1"]

\* C9: the write is unguarded: a run that has read the property can always
\* complete its update, and when the list was changed by the other run since
\* the read, the list it leaves is its own, built from its stale snapshot and
\* its mapping alone, so the other run's write is lost.
C9_WriteUnguarded ==
  \A r \in Runs :
    /\ pc[r] = "update" => ENABLED UpdateOk(r)
    /\ (Wrote(r) /\ stale[r]) =>
         /\ options = updated_options[r]
         /\ Values(options) \subseteq
              (IF input[r].category_id = None
               THEN DictValues(categories[r])
               ELSE Values(definition[r]) \cup DictValues(categories[r]))

\* the lost update: the targeted run created its option, the full-sync run
\* then overwrote it from an older read, and both report success
C9_Witness ==
  /\ Wrote("run1")
  /\ Wrote("run2")
  /\ stale["run1"]
  /\ input["run1"].category_id = None
  /\ result["run2"].action = "create"
  /\ categories["run2"][1][2] \in Values(updated_options["run2"])
  /\ categories["run2"][1][2] \notin Values(options)

\* C10: from a list with pairwise distinct displayOrder values, sequential
\* runs (full replace, single upsert, delete) leave the displayOrder values of
\* the remote list pairwise distinct.
C10_DisplayOrdersDistinct ==
  \A i, j \in 1..Len(options) :
    i # j => options[i].displayOrder # options[j].displayOrder

====
